---- MODULE Spec2Model ----
(***************************************************************************)
(* Backblaze B2 storage driver (libcloud/storage/drivers/backblaze_b2.py): *)
(* the authentication session, the request router and the two-phase        *)
(* upload, as a state machine over one connection object shared by the     *)
(* calling threads.                                                        *)
(*                                                                         *)
(* Python strings are TLA+ strings (concatenation is \o), None is the      *)
(* reserved value None, dicts are functions from keys to values, and a     *)
(* request body is a tagged record (none / dict / bytes / json text).      *)
(***************************************************************************)
EXTENDS Integers, Sequences, FiniteSets, TLC

VARIABLES
    py,        \* the interpreter the driver runs on: "py2" or "py3"
    threads,   \* the caller threads that share the connection
    full,      \* TRUE: callers use the whole argument space of request()
    session,   \* BackblazeB2AuthConnection: the six fields set by the handshake
    host,      \* BackblazeB2Connection.host, written by request()
    pc,        \* per thread: the line the thread is at
    fr,        \* per thread: the frame (arguments, locals, last transport call)
    left       \* per thread: the calls the caller still makes (-1: no limit)

vars == <<py, threads, full, session, host, pc, fr, left>>

-----------------------------------------------------------------------------
(* Bounds *)

NumAuthResponses == 2
NumTickets == 2
CallsPerThread == 1

Threads == {1, 2}

-----------------------------------------------------------------------------
(* Program constants *)

AUTH_API_HOST == "api.backblaze.com"
API_PATH == "/b2api/v1/"
OK == 200
CREATED == 201
ACCEPTED == 202
UNAUTHORIZED == 401

None == "<None>"

-----------------------------------------------------------------------------
(* Python values *)

\* A value that is None, a dict, a byte string (a sequence of byte values), or
\* the text json.dumps made of one of these.
NoData == [kind |-> "none"]
DictData(d) == [kind |-> "dict", dict |-> d]
BytesData(b) == [kind |-> "bytes", bytes |-> b]
JsonText(d) == [kind |-> "json", of |-> d]
EmptyDict == [k \in {} |-> ""]

\* x or {}
OrEmptyDict(x) == IF x.kind = "dict" THEN x.dict ELSE EmptyDict

\* Python truthiness of a string-or-None value: None and '' are falsy.
Truthy(v) == v # None /\ v # ""

\* Python truthiness of a request body: None, {} and b'' are falsy.
DataTruthy(d) ==
    CASE d.kind = "none" -> FALSE
      [] d.kind = "dict" -> DOMAIN d.dict # {}
      [] d.kind = "bytes" -> d.bytes # <<>>
      [] OTHER -> TRUE

\* '%s' % (v)
Format(v) == IF v = None THEN "None" ELSE v

\* d[k] = v on a dict
DictSet(d, k, v) == [x \in (DOMAIN d) \cup {k} |-> IF x = k THEN v ELSE d[x]]

Digit(n) == SubSeq("0123456789", n + 1, n + 1)

-----------------------------------------------------------------------------
(* urlparse.urlparse: scheme, netloc and path of a URL string *)

RECURSIVE FindFrom(_, _, _)
\* the first index >= i at which sub occurs in s, or 0
FindFrom(s, sub, i) ==
    IF i + Len(sub) - 1 > Len(s) THEN 0
    ELSE IF SubSeq(s, i, i + Len(sub) - 1) = sub THEN i
    ELSE FindFrom(s, sub, i + 1)

RECURSIVE FirstOf(_, _, _)
\* the first index >= i of a character of s that is in the set cs, or Len(s) + 1
FirstOf(s, cs, i) ==
    IF i > Len(s) THEN Len(s) + 1
    ELSE IF SubSeq(s, i, i) \in cs THEN i
    ELSE FirstOf(s, cs, i + 1)

Urlparse(url) ==
    LET p == FindFrom(url, "://", 1)
        start == IF p = 0 THEN 1 ELSE p + 3
        nend == IF p = 0 THEN 1 ELSE FirstOf(url, {"/", "?", "#"}, start)
        pend == FirstOf(url, {"?", "#"}, nend)
    IN  [scheme |-> IF p = 0 THEN "" ELSE SubSeq(url, 1, p - 1),
         netloc |-> IF p = 0 THEN "" ELSE SubSeq(url, start, nend - 1),
         path   |-> SubSeq(url, nend, pend - 1)]

-----------------------------------------------------------------------------
(* The server side: handshake replies, API replies, upload tickets *)

\* The body of a successful b2_authorize_account reply.
AuthObject(h) ==
    [accountId |-> "acct" \o Digit(h),
     apiUrl |-> "https://api00" \o Digit(h) \o ".backblazeb2.com",
     downloadUrl |-> "https://f00" \o Digit(h) \o ".backblazeb2.com",
     authorizationToken |-> "tok" \o Digit(h)]

AuthObjects == {AuthObject(h) : h \in 1..NumAuthResponses}

ErrorObject == [code |-> "error", message |-> "server message"]

ReplyStatuses == {OK, CREATED, UNAUTHORIZED, 400}

\* The body of a successful b2_get_upload_url reply: the server issues one of
\* its tickets, numbered 1..NumTickets.
Ticket(n) ==
    [bucketId |-> "b1",
     uploadUrl |-> "https://pod-000-100" \o Digit(n)
                   \o ".backblaze.com/b2api/v1/b2_upload_file/b1/c00" \o Digit(n),
     authorizationToken |-> "uptok" \o Digit(n)]

OkObject == [fileId |-> "id1", fileName |-> "f1"]

BucketObject == [bucketId |-> "b1", bucketName |-> "n1", bucketType |-> "allPrivate"]

\* The body of a successful reply to the call of this path.
ReplyObject(path) ==
    CASE path = "/b2api/v1/b2_list_buckets" -> [buckets |-> <<BucketObject>>]
      [] path \in {"/b2api/v1/b2_create_bucket", "/b2api/v1/b2_delete_bucket"}
            -> BucketObject
      [] path \in {"/b2api/v1/b2_list_file_names", "/b2api/v1/b2_list_file_versions"}
            -> [files |-> <<OkObject>>]
      [] OTHER -> OkObject

-----------------------------------------------------------------------------
(* BackblazeB2Response and the transport under it *)

\* BackblazeB2Response.success
Success(status) == status \in {OK, CREATED, ACCEPTED}

\* a faulty variant: parse_error raises for no status
ParseErrorNever(status) == ""

\* BackblazeB2Response.parse_error: the exception it raises, or "" when it
\* returns the body.
ParseError(status) == IF status = UNAUTHORIZED THEN "InvalidCredsError" ELSE ""

\* BackblazeB2Response.parse_error: InvalidCredsError(body['message'])
ParseErrorValue(body) == [message |-> body.message]

\* str(resp.object) of an error body parsed from JSON: on Python 2 the keys
\* and values are unicode strings and the dict lists 'message' first
StrOfObject(interp, o) ==
    IF interp = "py2"
    THEN "{u'message': u'" \o o.message \o "', u'code': u'" \o o.code \o "'}"
    ELSE "{'code': '" \o o.code \o "', 'message': '" \o o.message \o "'}"

\* What the base connection does with a reply: a reply that is no success goes
\* through parse_error, and what parse_error does not raise is handed back to
\* the caller.
TransportRaises(status) == IF Success(status) THEN "" ELSE ParseError(status)

-----------------------------------------------------------------------------
(* Frames *)

NoObject == [none |-> TRUE]
NoCall == [none |-> TRUE]
NoArgs == [none |-> TRUE]
NoUpload == [none |-> TRUE]

BlankFrame ==
    [op |-> "none", force |-> FALSE, stage |-> "",
     arg |-> NoArgs, action |-> "", params |-> EmptyDict, data |-> NoData,
     headers |-> EmptyDict, token |-> None,
     resp |-> NoObject, status |-> 0, object |-> NoObject,
     sent |-> NoCall, authed |-> FALSE, nhs |-> 0, ngets |-> 0, ticket |-> 0,
     upload |-> NoUpload, up |-> NoUpload, result |-> "",
     hstatus |-> 0, drv |-> NoArgs, value |-> NoObject, error |-> NoObject, resolved |-> None,
     parsed_api_url |-> NoObject, parsed_download_url |-> NoObject,
     host_read |-> None]

EmptySession ==
    [account_id |-> None, api_url |-> None, api_host |-> None,
     download_url |-> None, download_host |-> None, auth_token |-> None]

\* fr' is fr with the fields of changes overwritten in thread t's frame
Upd(t, changes) == fr' = [fr EXCEPT ![t] = changes @@ @]

\* thread t's call ends by raising exc
Raise(t, exc, changes) ==
    /\ pc' = [pc EXCEPT ![t] = "done"]
    /\ Upd(t, [result |-> exc] @@ changes)

Goto(t, label) == pc' = [pc EXCEPT ![t] = label]

-----------------------------------------------------------------------------
(* The calls the callers make *)

Methods == {"GET", "POST", "PUT"}
UploadHosts == {None, "pod-000-1000.backblaze.com"}
TokenArgs == {None, "uptok0"}
ParamArgs == {NoData, DictData([bucketId |-> "b1"])}
DataArgs == {NoData, DictData([bucketName |-> "n1"]), BytesData(<<104, 105>>)}
Payloads == {<<>>, <<104, 105>>, <<99, 233>>}
ContentTypes == {None, "text/plain"}

Request(action, params, data, headers, method, raw, include, upload_host, auth_token) ==
    [action |-> action, params |-> params, data |-> data, headers |-> headers,
     method |-> method, raw |-> raw, include_account_id |-> include,
     upload_host |-> upload_host, auth_token |-> auth_token]

\* every way of calling BackblazeB2Connection.request
AllRequests ==
    {Request("b2_list_buckets", p, d, NoData, m, r, i, u, a) :
        p \in ParamArgs, d \in DataArgs, m \in Methods, r \in BOOLEAN,
        i \in BOOLEAN, u \in UploadHosts, a \in TokenArgs}

\* the request of download_object
DriverRequests ==
    {Request("c1/o1", NoData, NoData, NoData, "GET", TRUE, FALSE, None, None)}

\* an optional argument of a driver operation: left at its default None, or
\* given a value
NotGiven == [given |-> FALSE]
Given(v) == [given |-> TRUE, value |-> v]
StartFileNames == {NotGiven, Given(""), Given("f0")}
StartFileIds == {NotGiven, Given("id0")}
MaxFileCounts == {NotGiven, Given(0), Given(10)}

\* "if ex_start_file_name:", "if ex_start_file_id:"
StrArgTruthy(a) == a.given /\ a.value # ""

\* "if ex_max_file_count:"
IntArgTruthy(a) == a.given /\ a.value # 0

\* the params ex_list_object_versions builds
ListVersionsParams(container_id, ex_start_file_name, ex_start_file_id, ex_max_file_count) ==
    LET keys == {"bucketId"}
                \cup (IF StrArgTruthy(ex_start_file_name) THEN {"startFileName"} ELSE {})
                \cup (IF StrArgTruthy(ex_start_file_id) THEN {"startFileId"} ELSE {})
                \cup (IF IntArgTruthy(ex_max_file_count) THEN {"maxFileCount"} ELSE {})
    IN  [k \in keys |->
            CASE k = "bucketId" -> container_id
              [] k = "startFileName" -> ex_start_file_name.value
              [] k = "startFileId" -> ex_start_file_id.value
              [] OTHER -> ex_max_file_count.value]

\* the operations of the driver that make one request and map its response
DriverOps ==
    {"iterate_containers", "iterate_container_objects", "create_container",
     "delete_container", "delete_object", "ex_get_object", "ex_hide_object",
     "ex_list_object_versions"}

DriverCall(op) ==
    [op |-> op, container_id |-> "b1", container_name |-> "n1",
     object_name |-> "f1", object_id |-> "id1",
     ex_start_file_name |-> NotGiven, ex_start_file_id |-> NotGiven,
     ex_max_file_count |-> NotGiven]

DriverCalls ==
    {DriverCall(op) : op \in DriverOps \ {"ex_list_object_versions"}}
    \cup {[ex_start_file_name |-> n, ex_start_file_id |-> i,
           ex_max_file_count |-> m] @@ DriverCall("ex_list_object_versions") :
             n \in StartFileNames, i \in StartFileIds, m \in MaxFileCounts}

\* the request each driver operation makes
DriverRequest(c) ==
    CASE c.op = "iterate_containers" ->
            Request("b2_list_buckets", NoData, NoData, NoData, "GET", FALSE,
                    TRUE, None, None)
      [] c.op = "iterate_container_objects" ->
            Request("b2_list_file_names", DictData([bucketId |-> c.container_id]),
                    NoData, NoData, "GET", FALSE, FALSE, None, None)
      [] c.op = "create_container" ->
            Request("b2_create_bucket", NoData,
                    DictData([bucketName |-> c.container_name,
                              bucketType |-> "allPrivate"]),
                    NoData, "POST", FALSE, TRUE, None, None)
      [] c.op = "delete_container" ->
            Request("b2_delete_bucket", NoData,
                    DictData([bucketId |-> c.container_id]),
                    NoData, "POST", FALSE, TRUE, None, None)
      [] c.op = "delete_object" ->
            Request("b2_delete_file_version", NoData,
                    DictData([fileName |-> c.object_name, fileId |-> c.object_id]),
                    NoData, "POST", FALSE, FALSE, None, None)
      [] c.op = "ex_get_object" ->
            Request("b2_get_file_info", DictData([fileId |-> c.object_id]),
                    NoData, NoData, "GET", FALSE, FALSE, None, None)
      [] c.op = "ex_hide_object" ->
            Request("b2_hide_file", NoData,
                    DictData([bucketId |-> c.container_id,
                              fileName |-> c.object_name]),
                    NoData, "POST", FALSE, FALSE, None, None)
      [] OTHER ->
            Request("b2_list_file_versions",
                    DictData(ListVersionsParams(c.container_id,
                                 c.ex_start_file_name, c.ex_start_file_id,
                                 c.ex_max_file_count)),
                    NoData, NoData, "GET", FALSE, FALSE, None, None)

Calls ==
    {[op |-> "authenticate", force |-> f] : f \in IF full THEN BOOLEAN ELSE {}}
    \cup {[op |-> "request", arg |-> a] :
             a \in IF full THEN AllRequests ELSE DriverRequests}
    \cup (IF full THEN DriverCalls ELSE {DriverCall("iterate_containers")})
    \cup {[op |-> "upload_object", payload |-> b, object_name |-> "o1",
           content_type |-> c] :
             b \in IF full THEN Payloads ELSE {<<104, 105>>},
             c \in IF full THEN ContentTypes ELSE {None}}

\* the frame of a thread that enters request(arg): params = params or {},
\* headers = headers or {}
EnterRequest(arg) ==
    [arg |-> arg, action |-> arg.action, params |-> OrEmptyDict(arg.params),
     headers |-> OrEmptyDict(arg.headers), data |-> arg.data, token |-> None,
     force |-> FALSE, authed |-> FALSE, sent |-> NoCall, status |-> 0,
     resolved |-> None]

Call(t) ==
    /\ t \in threads
    /\ pc[t] = "idle"
    /\ left[t] # 0
    /\ \E c \in Calls :
        CASE c.op = "authenticate" ->
                /\ Upd(t, [op |-> "authenticate", force |-> c.force] @@ BlankFrame)
                /\ Goto(t, "auth_check")
          [] c.op = "request" ->
                /\ Upd(t, [op |-> "request"] @@ EnterRequest(c.arg) @@ BlankFrame)
                /\ Goto(t, "auth_check")
          [] c.op = "upload_object" ->
                /\ Upd(t, [op |-> "upload_object",
                           upload |-> [payload |-> c.payload,
                                       object_name |-> c.object_name,
                                       content_type |-> c.content_type]]
                          @@ BlankFrame)
                /\ Goto(t, "up_hash")
          [] OTHER ->
                /\ Upd(t, [op |-> c.op, drv |-> c]
                          @@ EnterRequest(DriverRequest(c)) @@ BlankFrame)
                /\ Goto(t, "auth_check")
    /\ left' = [left EXCEPT ![t] = IF @ > 0 THEN @ - 1 ELSE @]
    /\ UNCHANGED <<py, threads, full, session, host>>

\* the call of thread t has returned or raised; the caller takes the result
Return(t) ==
    /\ t \in threads
    /\ pc[t] = "done"
    /\ Goto(t, "idle")
    /\ Upd(t, BlankFrame)
    /\ UNCHANGED <<py, threads, full, session, host, left>>

-----------------------------------------------------------------------------
(* BackblazeB2AuthConnection *)

\* a faulty variant: the token is never looked at
IsAuthenticationNeededAlways(auth_token, force) == TRUE

\* _is_authentication_needed
IsAuthenticationNeeded(auth_token, force) == ~Truthy(auth_token) \/ force

\* where authenticate() returns to: its caller, or request() at "Set host"
AuthReturn(t, changes) ==
    IF fr[t].op = "authenticate"
    THEN /\ Goto(t, "done") /\ Upd(t, [result |-> "ok"] @@ changes)
    ELSE /\ Goto(t, "req_host") /\ Upd(t, changes)

\* authenticate, the check of _is_authentication_needed
AuthCheck(t) ==
    /\ t \in threads
    /\ pc[t] = "auth_check"
    /\ IF IsAuthenticationNeeded(session.auth_token, fr[t].force)
       THEN /\ Goto(t, "auth_send") /\ Upd(t, [authed |-> TRUE])
       ELSE AuthReturn(t, [authed |-> TRUE])
    /\ UNCHANGED <<py, threads, full, session, host, left>>

\* "if resp.status == httplib.OK"
AuthStatusOk(status) == status = OK

\* Exception('Failed to authenticate: %s' % (str(resp.object)))
AuthFailure(interp, object) ==
    [message |-> "Failed to authenticate: " \o StrOfObject(interp, object)]

\* authenticate, the b2_authorize_account request and the test of its status
AuthSend(t) ==
    /\ t \in threads
    /\ pc[t] = "auth_send"
    /\ \E status \in ReplyStatuses, obj \in AuthObjects :
        LET count == [nhs |-> fr[t].nhs + 1, hstatus |-> status] IN
        IF TransportRaises(status) # ""
        THEN Raise(t, TransportRaises(status),
                   [error |-> ParseErrorValue(ErrorObject)] @@ count)
        ELSE IF AuthStatusOk(status)
        THEN /\ Goto(t, "set_account_id") /\ Upd(t, [resp |-> obj] @@ count)
        ELSE Raise(t, "Exception", [error |-> AuthFailure(py, ErrorObject)] @@ count)
    /\ UNCHANGED <<py, threads, full, session, host, left>>

\* _parse_and_set_auth_info, one assignment at a time
SetField(t, label, field, value, next) ==
    /\ t \in threads
    /\ pc[t] = label
    /\ session' = [session EXCEPT ![field] = value]
    /\ Goto(t, next)
    /\ UNCHANGED <<py, threads, full, host, fr, left>>

SetAccountId(t) ==
    SetField(t, "set_account_id", "account_id", fr[t].resp.accountId, "set_api_url")

SetApiUrl(t) ==
    SetField(t, "set_api_url", "api_url", fr[t].resp.apiUrl, "set_download_url")

SetDownloadUrl(t) ==
    SetField(t, "set_download_url", "download_url", fr[t].resp.downloadUrl,
             "set_auth_token")

SetAuthToken(t) ==
    SetField(t, "set_auth_token", "auth_token", fr[t].resp.authorizationToken,
             "parse_api_url")

\* "parsed_api_url = urlparse.urlparse(self.api_url)": the session's api_url
\* as it is now is read into a local
ParseApiUrl(t) ==
    /\ t \in threads
    /\ pc[t] = "parse_api_url"
    /\ Upd(t, [parsed_api_url |-> Urlparse(session.api_url)])
    /\ Goto(t, "set_api_host")
    /\ UNCHANGED <<py, threads, full, session, host, left>>

\* "self.api_host = parsed_api_url.netloc"
SetApiHost(t) ==
    SetField(t, "set_api_host", "api_host", fr[t].parsed_api_url.netloc,
             "parse_download_url")

\* "parsed_download_url = urlparse.urlparse(self.download_url)"
ParseDownloadUrl(t) ==
    /\ t \in threads
    /\ pc[t] = "parse_download_url"
    /\ Upd(t, [parsed_download_url |-> Urlparse(session.download_url)])
    /\ Goto(t, "set_download_host")
    /\ UNCHANGED <<py, threads, full, session, host, left>>

\* "self.download_host = parsed_download_url.netloc", and the return
SetDownloadHost(t) ==
    /\ t \in threads
    /\ pc[t] = "set_download_host"
    /\ session' = [session EXCEPT
                      !.download_host = fr[t].parsed_download_url.netloc]
    /\ AuthReturn(t, [resp |-> NoObject, parsed_api_url |-> NoObject,
                      parsed_download_url |-> NoObject])
    /\ UNCHANGED <<py, threads, full, host, left>>

-----------------------------------------------------------------------------
(* BackblazeB2Connection.request *)

\* "Set host", the raw / not raw branch: the attribute of the session that
\* the right-hand side of the assignment reads (None when the branch reads
\* no attribute of the session)
HostRead(raw, method, sess) ==
    IF raw
    THEN IF method = "GET" THEN sess.download_host ELSE None
    ELSE sess.api_host

\* "Set host", the raw / not raw branch: the value of self.host after it
HostAfterBranch(raw, method, upload_host, sess, cur) ==
    IF raw
    THEN IF method = "GET" THEN sess.download_host
         ELSE IF method = "POST" THEN upload_host
         ELSE cur
    ELSE sess.api_host

\* "if upload_host: self.host = upload_host"
HostAfterUploadHost(upload_host, cur) ==
    IF Truthy(upload_host) THEN upload_host ELSE cur

\* a faulty variant: the session token is always used
ResolveTokenSessionOnly(auth_token, sess) == sess.auth_token

\* "Provide auth token"
ResolveToken(auth_token, sess) ==
    IF ~Truthy(auth_token) THEN sess.auth_token ELSE auth_token

\* "Include Content-Type"
WithContentType(headers, raw, data) ==
    IF ~raw /\ DataTruthy(data)
    THEN DictSet(headers, "Content-Type", "application/json")
    ELSE headers

\* "Include account id": the exception it raises, or ""
AccountIdRaises(include, method, data) ==
    IF include /\ method = "POST" /\ data.kind = "bytes" /\ DataTruthy(data)
    THEN "TypeError" ELSE ""

\* a faulty variant: the account id goes into the query whatever the method
ParamsWithAccountIdAnyMethod(include, method, params, sess) ==
    IF include THEN DictSet(params, "accountId", sess.account_id) ELSE params


ParamsWithAccountId(include, method, params, sess) ==
    IF include /\ method = "GET"
    THEN DictSet(params, "accountId", sess.account_id)
    ELSE params

DataWithAccountId(include, method, data, sess) ==
    IF include /\ method = "POST"
    THEN DictData(DictSet(OrEmptyDict(data), "accountId", sess.account_id))
    ELSE data

\* the path of the request
ActionPath(raw, upload_host, method, action) ==
    IF ~raw /\ ~Truthy(upload_host) THEN API_PATH \o action
    ELSE IF method = "GET" THEN "/file/" \o action
    ELSE action

\* json.dumps(data): the exception it raises on this interpreter, or ""
JsonDumpsRaises(interp, data) ==
    IF data.kind = "bytes"
    THEN IF interp = "py3" THEN "TypeError"
         ELSE IF \E i \in DOMAIN data.bytes : data.bytes[i] >= 128
              THEN "UnicodeDecodeError" ELSE ""
    ELSE ""

\* "if data and not upload_host: data = json.dumps(data)"
NeedsJson(data, upload_host) == DataTruthy(data) /\ ~Truthy(upload_host)

BodyOf(data, upload_host) ==
    IF NeedsJson(data, upload_host) THEN JsonText(data) ELSE data

\* "self.host = auth_conn.download_host" / "self.host = auth_conn.api_host",
\* the right-hand side: the session's host as it is now is read
ReqReadHost(t) ==
    /\ t \in threads
    /\ pc[t] = "req_host"
    /\ Upd(t, [host_read |-> HostRead(fr[t].arg.raw, fr[t].arg.method, session)])
    /\ Goto(t, "req_set_host")
    /\ UNCHANGED <<py, threads, full, session, host, left>>

\* the same assignment, the store into self.host of the value read before
ReqSetHost(t) ==
    /\ t \in threads
    /\ pc[t] = "req_set_host"
    /\ LET auth_conn == [download_host |-> fr[t].host_read,
                         api_host |-> fr[t].host_read]
       IN  host' = HostAfterBranch(fr[t].arg.raw, fr[t].arg.method,
                                   fr[t].arg.upload_host, auth_conn, host)
    /\ Upd(t, [resolved |-> host', host_read |-> None])
    /\ Goto(t, "req_upload_host")
    /\ UNCHANGED <<py, threads, full, session, left>>

ReqUploadHost(t) ==
    /\ t \in threads
    /\ pc[t] = "req_upload_host"
    /\ host' = HostAfterUploadHost(fr[t].arg.upload_host, host)
    /\ Upd(t, [resolved |-> host'])
    /\ Goto(t, "req_token")
    /\ UNCHANGED <<py, threads, full, session, left>>

ReqToken(t) ==
    /\ t \in threads
    /\ pc[t] = "req_token"
    /\ LET token == ResolveToken(fr[t].arg.auth_token, session)
           h1 == DictSet(fr[t].headers, "Authorization", Format(token))
       IN  Upd(t, [token |-> token,
                   headers |-> WithContentType(h1, fr[t].arg.raw, fr[t].data)])
    /\ Goto(t, "req_account")
    /\ UNCHANGED <<py, threads, full, session, host, left>>

ReqAccount(t) ==
    /\ t \in threads
    /\ pc[t] = "req_account"
    /\ LET a == fr[t].arg
           e1 == AccountIdRaises(a.include_account_id, a.method, fr[t].data)
           params == ParamsWithAccountId(a.include_account_id, a.method,
                                         fr[t].params, session)
           data == DataWithAccountId(a.include_account_id, a.method,
                                     fr[t].data, session)
           e2 == IF NeedsJson(data, a.upload_host)
                 THEN JsonDumpsRaises(py, data) ELSE ""
       IN  IF e1 # "" THEN Raise(t, e1, EmptyDict)
           ELSE IF e2 # "" THEN Raise(t, e2, [params |-> params, data |-> data])
           ELSE /\ Goto(t, "req_send")
                /\ Upd(t, [params |-> params,
                           data |-> BodyOf(data, a.upload_host),
                           action |-> ActionPath(a.raw, a.upload_host, a.method,
                                                 a.action)])
    /\ UNCHANGED <<py, threads, full, session, host, left>>

\* the call handed to the transport: it goes to self.host as it is now
TransportCall(t) ==
    [host |-> host, path |-> fr[t].action, params |-> fr[t].params,
     data |-> fr[t].data, headers |-> fr[t].headers,
     method |-> fr[t].arg.method, raw |-> fr[t].arg.raw]

IsTicketFetch(call) == call.path = API_PATH \o "b2_get_upload_url"

\* where request() returns to
AfterRequest(t) ==
    IF fr[t].op = "upload_object"
    THEN IF fr[t].stage = "ticket" THEN "up_parse" ELSE "up_result"
    ELSE IF fr[t].op = "request" THEN "done"
    ELSE "drv_result"

ReqSend(t) ==
    /\ t \in threads
    /\ pc[t] = "req_send"
    /\ LET call == TransportCall(t)
           gets == IF IsTicketFetch(call) THEN fr[t].ngets + 1 ELSE fr[t].ngets
           log == [sent |-> call, ngets |-> gets]
       IN
       IF call.host = None
       THEN Raise(t, "ConnectError", log)
       ELSE \E status \in ReplyStatuses :
            IF TransportRaises(status) # ""
            THEN Raise(t, TransportRaises(status),
                       [status |-> status, object |-> ErrorObject,
                        error |-> ParseErrorValue(ErrorObject)] @@ log)
            ELSE IF Success(status) /\ IsTicketFetch(call)
            THEN \E n \in 1..NumTickets :
                 /\ Goto(t, AfterRequest(t))
                 /\ Upd(t, [status |-> status, object |-> Ticket(n),
                            ticket |-> n, result |-> "response"] @@ log)
            ELSE /\ Goto(t, AfterRequest(t))
                 /\ Upd(t, [status |-> status,
                            object |-> IF Success(status)
                                       THEN ReplyObject(call.path)
                                       ELSE ErrorObject,
                            result |-> "response"] @@ log)
    /\ UNCHANGED <<py, threads, full, session, host, left>>

-----------------------------------------------------------------------------
(* BackblazeB2StorageDriver: mapping a response to the operation's result *)

\* item.get(key, default)
Get(item, key, default) == IF key \in DOMAIN item THEN item[key] ELSE default

\* _to_container
ToContainer(item) ==
    [kind |-> "Container", name |-> item.bucketName,
     extra |-> [id |-> item.bucketId, bucketType |-> item.bucketType]]

ToContainerRaises(item) ==
    IF {"bucketId", "bucketType", "bucketName"} \subseteq DOMAIN item THEN ""
    ELSE "KeyError"

\* _to_object
ToObject(item, container) ==
    [kind |-> "Object", name |-> item.fileName,
     size |-> Get(item, "size", Get(item, "contentLength", None)),
     hash |-> Get(item, "contentSha1", None),
     extra |-> [fileId |-> item.fileId,
                uploadTimestamp |-> Get(item, "uploadTimestamp", None)],
     meta_data |-> Get(item, "fileInfo", EmptyDict), container |-> container]

ToObjectRaises(item) ==
    IF {"fileId", "fileName"} \subseteq DOMAIN item THEN "" ELSE "KeyError"

\* _to_containers
ToContainers(data) ==
    [kind |-> "list",
     items |-> [i \in DOMAIN data.buckets |-> ToContainer(data.buckets[i])]]

ToContainersRaises(data) ==
    IF "buckets" \notin DOMAIN data THEN "KeyError"
    ELSE IF \E i \in DOMAIN data.buckets : ToContainerRaises(data.buckets[i]) # ""
    THEN "KeyError" ELSE ""

\* _to_objects
ToObjects(data, container) ==
    [kind |-> "list",
     items |-> [i \in DOMAIN data.files |-> ToObject(data.files[i], container)]]

ToObjectsRaises(data) ==
    IF "files" \notin DOMAIN data THEN "KeyError"
    ELSE IF \E i \in DOMAIN data.files : ToObjectRaises(data.files[i]) # ""
    THEN "KeyError" ELSE ""

\* the container an operation was given, as the caller built it
ContainerArg(id) == [kind |-> "Container", extra |-> [id |-> id]]

\* a faulty variant: any success status counts as deleted
DeleteResultAnySuccess(status) == Success(status)

\* "return resp.status == httplib.OK" of delete_container and delete_object
DeleteResult(status) == status = OK

Bool(b) == [kind |-> "bool", bool |-> b]

\* the exception the mapping of the response raises, or ""
DriverRaises(op, object) ==
    CASE op = "iterate_containers" -> ToContainersRaises(object)
      [] op = "create_container" -> ToContainerRaises(object)
      [] op \in {"iterate_container_objects", "ex_list_object_versions"} ->
            ToObjectsRaises(object)
      [] op \in {"ex_get_object", "ex_hide_object"} -> ToObjectRaises(object)
      [] OTHER -> ""

\* what the operation returns for a response
DriverValue(c, status, object) ==
    CASE c.op = "iterate_containers" -> ToContainers(object)
      [] c.op = "create_container" -> ToContainer(object)
      [] c.op = "iterate_container_objects" ->
            ToObjects(object, ContainerArg(c.container_id))
      [] c.op = "ex_list_object_versions" -> ToObjects(object, None)
      [] c.op \in {"ex_get_object", "ex_hide_object"} -> ToObject(object, None)
      [] OTHER -> Bool(DeleteResult(status))

\* the lines of a driver operation after its request() has returned
DriverResult(t) ==
    /\ t \in threads
    /\ pc[t] = "drv_result"
    /\ LET e == DriverRaises(fr[t].op, fr[t].object) IN
       IF e # "" THEN Raise(t, e, EmptyDict)
       ELSE /\ Goto(t, "done")
            /\ Upd(t, [result |-> "return",
                       value |-> DriverValue(fr[t].drv, fr[t].status,
                                             fr[t].object)])
    /\ UNCHANGED <<py, threads, full, session, host, left>>

-----------------------------------------------------------------------------
(* BackblazeB2StorageDriver.upload_object *)

\* hashlib.sha1(bytes).hexdigest(), as an injective function of the bytes
Sha1Hex(bytes) == [sha1hex |-> bytes]

\* data.encode() on the payload read by exhaust_iterator: the exception it
\* raises on this interpreter, or ""
EncodeRaises(interp, bytes) ==
    IF interp = "py3" THEN "AttributeError"
    ELSE IF \E i \in DOMAIN bytes : bytes[i] >= 128 THEN "UnicodeDecodeError"
    ELSE ""

\* extra.get('content_type', 'b2/x-auto')
ContentTypeOf(content_type) ==
    IF content_type = None THEN "b2/x-auto" ELSE content_type

\* the headers upload_object builds
UploadHeaders(object_name, content_type, data) ==
    [k \in {"X-Bz-File-Name", "Content-Type", "X-Bz-Content-Sha1"} |->
        CASE k = "X-Bz-File-Name" -> object_name
          [] k = "Content-Type" -> ContentTypeOf(content_type)
          [] OTHER -> Sha1Hex(data)]

UpHash(t) ==
    /\ t \in threads
    /\ pc[t] = "up_hash"
    /\ LET u == fr[t].upload
           e == EncodeRaises(py, u.payload)
       IN  IF e # "" THEN Raise(t, e, EmptyDict)
           ELSE /\ Goto(t, "up_ticket")
                /\ Upd(t, [upload |->
                              [headers |-> UploadHeaders(u.object_name,
                                              u.content_type, u.payload)] @@ u])
    /\ UNCHANGED <<py, threads, full, session, host, left>>

\* ex_get_upload_data: the request it makes
UploadDataRequest(container_id) ==
    Request("b2_get_upload_url", DictData([bucketId |-> container_id]), NoData,
            NoData, "GET", FALSE, FALSE, None, None)

\* a faulty variant: the upload data is fetched once and kept
ExGetUploadDataCached(object) == Ticket(1)

\* ex_get_upload_data: what it returns
ExGetUploadData(object) == object

UpTicket(t) ==
    /\ t \in threads
    /\ pc[t] = "up_ticket"
    /\ Upd(t, [stage |-> "ticket"] @@ EnterRequest(UploadDataRequest("b1")))
    /\ Goto(t, "auth_check")
    /\ UNCHANGED <<py, threads, full, session, host, left>>

\* the POST of upload_object
UploadRequest(upload_data, headers, data) ==
    LET parsed_url == Urlparse(upload_data.uploadUrl) IN
    Request(parsed_url.path, NoData, BytesData(data), DictData(headers), "POST",
            FALSE, FALSE, parsed_url.netloc, upload_data.authorizationToken)

UpParse(t) ==
    /\ t \in threads
    /\ pc[t] = "up_parse"
    /\ LET upload_data == ExGetUploadData(fr[t].object) IN
       IF {"authorizationToken", "uploadUrl"} \subseteq DOMAIN upload_data
       THEN /\ Goto(t, "auth_check")
            /\ Upd(t, [stage |-> "post", up |-> upload_data]
                      @@ EnterRequest(UploadRequest(upload_data,
                             fr[t].upload.headers, fr[t].upload.payload)))
       ELSE Raise(t, "KeyError", EmptyDict)
    /\ UNCHANGED <<py, threads, full, session, host, left>>

\* a faulty variant: any success status counts as uploaded
UploadSucceededAnySuccess(status) == Success(status)

\* "if response.status == httplib.OK"
UploadSucceeded(status) == status = OK

\* LibcloudError('Upload failed. status_code=%s, body=%s' % (status, body))
UploadFailure(status, body) ==
    [message |-> "Upload failed.", status_code |-> status, body |-> body]

UpResult(t) ==
    /\ t \in threads
    /\ pc[t] = "up_result"
    /\ Goto(t, "done")
    /\ IF UploadSucceeded(fr[t].status)
       THEN Upd(t, [result |-> "Object",
                    value |-> ToObject(fr[t].object, ContainerArg("b1"))])
       ELSE Upd(t, [result |-> "LibcloudError",
                    error |-> UploadFailure(fr[t].status, fr[t].object)])
    /\ UNCHANGED <<py, threads, full, session, host, left>>

-----------------------------------------------------------------------------
(* Specifications *)

InitWith(ths, all, n) ==
    /\ py \in {"py2", "py3"}
    /\ left = [t \in Threads |-> n]
    /\ threads = ths
    /\ full = all
    /\ session = EmptySession
    /\ host = None
    /\ pc = [t \in Threads |-> "idle"]
    /\ fr = [t \in Threads |-> BlankFrame]

\* one caller, every way of calling the connection
Init == InitWith({1}, TRUE, -1)

\* two callers on the same connection, each making CallsPerThread calls of
\* the driver's operations
InitConc == InitWith(Threads, FALSE, CallsPerThread)

Next ==
    \E t \in Threads :
        \/ Call(t)
        \/ Return(t)
        \/ AuthCheck(t)
        \/ AuthSend(t)
        \/ SetAccountId(t)
        \/ SetApiUrl(t)
        \/ SetDownloadUrl(t)
        \/ SetAuthToken(t)
        \/ ParseApiUrl(t)
        \/ SetApiHost(t)
        \/ ParseDownloadUrl(t)
        \/ SetDownloadHost(t)
        \/ ReqReadHost(t)
        \/ ReqSetHost(t)
        \/ ReqUploadHost(t)
        \/ ReqToken(t)
        \/ ReqAccount(t)
        \/ ReqSend(t)
        \/ DriverResult(t)
        \/ UpHash(t)
        \/ UpTicket(t)
        \/ UpParse(t)
        \/ UpResult(t)

Spec == Init /\ [][Next]_vars

SpecConc == InitConc /\ [][Next]_vars

-----------------------------------------------------------------------------
(* Properties *)

\* the session a handshake reply leaves when it is stored whole
SessionOf(o) ==
    [account_id |-> o.accountId, api_url |-> o.apiUrl,
     api_host |-> Urlparse(o.apiUrl).netloc,
     download_url |-> o.downloadUrl,
     download_host |-> Urlparse(o.downloadUrl).netloc,
     auth_token |-> o.authorizationToken]

SessionAllOrNothing ==
    session = EmptySession \/ \E o \in AuthObjects : session = SessionOf(o)

\* the lines at which a call reads the session
ObservePcs == {"auth_check", "req_host", "req_token", "req_account"}

HasSent(t) == fr[t].sent # NoCall

\* the last transport call of thread t is the payload POST of upload_object
IsUploadPost(t) ==
    /\ fr[t].op = "upload_object"
    /\ fr[t].stage = "post"
    /\ HasSent(t)

\* the content of a body, JSON-encoded or not
Payload(body) == IF body.kind = "json" THEN body.of ELSE body

\* C1: on a session whose token is set, authenticate(force=false) goes past
\* the handshake and changes no session field; with force=true, or with no
\* token, authenticate goes to the handshake, and the handshake step sends
\* exactly one b2_authorize_account request; a successful authenticate()
\* leaves the token set.
C1_AuthenticateStep(t) ==
    /\ (pc[t] = "auth_check" /\ pc'[t] # "auth_check") =>
          IF Truthy(session.auth_token) /\ ~fr[t].force
          THEN /\ pc'[t] # "auth_send"
               /\ session' = session
               /\ fr'[t].nhs = fr[t].nhs
          ELSE pc'[t] = "auth_send"
    /\ (pc[t] = "auth_send" /\ pc'[t] # "auth_send") =>
          fr'[t].nhs = fr[t].nhs + 1
    /\ (pc[t] # "auth_send") => (fr'[t].nhs = fr[t].nhs \/ fr'[t].nhs = 0)
    /\ (fr[t].op = "authenticate" /\ pc[t] # "done" /\ pc'[t] = "done"
        /\ fr'[t].result = "ok") => Truthy(session'.auth_token)

C1_AuthenticateIdempotent == [][\A t \in Threads : C1_AuthenticateStep(t)]_vars

\* authenticate(force=false) has returned from a primed session without a
\* handshake
C1_Witness ==
    \E t \in threads :
        /\ pc[t] = "done"
        /\ fr[t].op = "authenticate"
        /\ ~fr[t].force
        /\ fr[t].result = "ok"
        /\ fr[t].nhs = 0
        /\ \E o \in AuthObjects : session = SessionOf(o)

\* C2: whenever a call is at a line that reads the session, the six fields
\* are all unset or are all set from one handshake reply.
C2_AllOrNothing ==
    (\E t \in threads : pc[t] \in ObservePcs) => SessionAllOrNothing

\* C3: every call handed to the transport comes after authenticate(), has a
\* host and an Authorization token that are set, and, when it is a raw POST,
\* was given an upload host; a call whose handshake failed hands nothing to
\* the transport.
C3_NoUnsetHostOrToken ==
    \A t \in threads :
        /\ HasSent(t) =>
            /\ fr[t].authed
            /\ fr[t].sent.host # None
            /\ fr[t].sent.headers["Authorization"] # "None"
            /\ (fr[t].sent.raw /\ fr[t].sent.method = "POST")
                  => Truthy(fr[t].arg.upload_host)
        /\ (fr[t].op # "authenticate" /\ pc[t] = "done"
            /\ fr[t].result \in {"InvalidCredsError", "Exception"}
            /\ fr[t].status = 0) => ~HasSent(t)

\* the host the claim names for a request
C4_Host(a, sess) ==
    IF a.upload_host # None THEN a.upload_host
    ELSE IF a.raw /\ a.method = "GET" THEN sess.download_host
    ELSE IF a.raw /\ a.method = "POST" THEN a.upload_host
    ELSE sess.api_host

\* C4: every call handed to the transport goes to the explicit upload host,
\* else to the download host when raw and GET, else to the upload host when
\* raw and POST, else to the API host.
C4_HostResolution ==
    \A t \in threads : HasSent(t) => fr[t].sent.host = C4_Host(fr[t].arg, session)

\* C5: the path sent is API_PATH + action for a non-raw request without
\* upload host, '/file/' + action for a raw GET, and the action itself for a
\* raw POST and for a request with an explicit upload host.
C5_PathShaping ==
    \A t \in threads : HasSent(t) =>
        LET a == fr[t].arg
            path == fr[t].sent.path
        IN  /\ (~a.raw /\ a.upload_host = None) => path = API_PATH \o a.action
            /\ (a.raw /\ a.method = "GET" /\ a.upload_host = None)
                  => path = "/file/" \o a.action
            /\ (a.raw /\ a.method = "POST") => path = a.action
            /\ (a.upload_host # None /\ ~(a.raw /\ a.method = "GET"))
                  => path = a.action

\* C6: a non-raw request with a body and no upload host is sent JSON-encoded
\* with Content-Type application/json; a raw request and a request with an
\* upload host are sent with the body the caller passed.
C6_BodyShaping ==
    \A t \in threads : HasSent(t) =>
        LET a == fr[t].arg
            call == fr[t].sent
        IN  /\ (~a.raw /\ DataTruthy(a.data) /\ a.upload_host = None) =>
                /\ call.data.kind = "json"
                /\ "Content-Type" \in DOMAIN call.headers
                /\ call.headers["Content-Type"] = "application/json"
            /\ (a.raw \/ a.upload_host # None) => call.data = a.data

\* C7: with include_account_id a GET gains accountId in its query and its
\* body is the caller's, a POST gains accountId in its body and its query is
\* the caller's; without include_account_id neither gains an accountId.
C7_AccountIdInjection ==
    \A t \in threads : HasSent(t) =>
        LET a == fr[t].arg
            call == fr[t].sent
            body == Payload(call.data)
        IN  /\ (a.include_account_id /\ a.method = "GET") =>
                /\ call.params = DictSet(OrEmptyDict(a.params), "accountId",
                                          session.account_id)
                /\ body = a.data
            /\ (a.include_account_id /\ a.method = "POST") =>
                /\ body = DictData(DictSet(OrEmptyDict(a.data), "accountId",
                                            session.account_id))
                /\ call.params = OrEmptyDict(a.params)
            /\ ~a.include_account_id =>
                /\ call.params = OrEmptyDict(a.params)
                /\ body = a.data

\* a GET and a POST with include_account_id have been sent
C7_Witness ==
    \E t \in threads :
        /\ HasSent(t)
        /\ fr[t].arg.include_account_id
        /\ fr[t].arg.method = "POST"
        /\ fr[t].arg.data.kind = "dict"
        /\ fr[t].arg.params.kind = "dict"
        /\ "accountId" \in DOMAIN Payload(fr[t].sent.data).dict
        /\ session.account_id # None

\* C8: the payload POST of upload_object goes to the host and path of the
\* uploadUrl of the ticket fetched in the same call, with that ticket's
\* token as Authorization and not the session token, and its body is the
\* payload as bytes.
C8_UploadPostTarget ==
    \A t \in threads : IsUploadPost(t) =>
        LET call == fr[t].sent
            ticket == Ticket(fr[t].ticket)
        IN  /\ fr[t].ticket # 0
            /\ "https://" \o call.host \o call.path = ticket.uploadUrl
            /\ call.headers["Authorization"] = ticket.authorizationToken
            /\ call.headers["Authorization"] # session.auth_token
            /\ call.data = BytesData(fr[t].upload.payload)

\* a non-empty payload has been posted
C8_Witness ==
    \E t \in threads :
        /\ IsUploadPost(t)
        /\ fr[t].upload.payload # <<>>
        /\ fr[t].sent.host = "pod-000-1002.backblaze.com"

\* C9: an upload_object call sends at most one b2_get_upload_url GET, to the
\* API host; its payload POST comes after exactly one such GET and uses the
\* ticket the server issued in this call; a call whose ticket fetch failed
\* sends no POST.
C9_TicketPerCall ==
    \A t \in threads : fr[t].op = "upload_object" =>
        /\ fr[t].ngets <= 1
        /\ (fr[t].stage = "ticket" /\ HasSent(t)) =>
            /\ fr[t].sent.host = session.api_host
            /\ fr[t].sent.method = "GET"
            /\ fr[t].sent.path = "/b2api/v1/b2_get_upload_url"
        /\ fr[t].stage = "post" => (fr[t].ngets = 1 /\ fr[t].ticket # 0)
        /\ IsUploadPost(t) =>
            /\ "https://" \o fr[t].sent.host \o fr[t].sent.path
                  = Ticket(fr[t].ticket).uploadUrl
            /\ fr[t].sent.headers["Authorization"]
                  = Ticket(fr[t].ticket).authorizationToken

\* a payload POST has been sent with the second ticket
C9_Witness ==
    \E t \in threads : IsUploadPost(t) /\ fr[t].ticket = 2 /\ fr[t].ngets = 1

\* C10: for any payload, upload_object computes the SHA-1 of the payload
\* before it asks for the ticket (once the call is past the hash step, its
\* headers hold the hash of the payload it was given), and the
\* X-Bz-Content-Sha1 header of the payload POST is the SHA-1 of the bytes sent
\* as its body.
C10_ContentSha1 ==
    \A t \in threads :
        /\ (fr[t].op = "upload_object" /\ pc[t] # "up_hash") =>
            /\ "headers" \in DOMAIN fr[t].upload
            /\ fr[t].upload.headers["X-Bz-Content-Sha1"]
                  = Sha1Hex(fr[t].upload.payload)
        /\ IsUploadPost(t) =>
            /\ fr[t].sent.data.kind = "bytes"
            /\ fr[t].sent.headers["X-Bz-Content-Sha1"]
                  = Sha1Hex(fr[t].sent.data.bytes)

\* C11: the payload POST of upload_object carries the file-name header, the
\* content-hash header and a Content-Type header equal to the content type
\* chosen for the object (extra['content_type'], or 'b2/x-auto'), whatever
\* the payload.
C11_UploadContentType ==
    \A t \in threads : IsUploadPost(t) =>
        /\ fr[t].sent.headers["X-Bz-File-Name"] = fr[t].upload.object_name
        /\ "X-Bz-Content-Sha1" \in DOMAIN fr[t].sent.headers
        /\ fr[t].sent.headers["Content-Type"]
              = (IF fr[t].upload.content_type = None THEN "b2/x-auto"
                 ELSE fr[t].upload.content_type)

-----------------------------------------------------------------------------
(* Results of the driver operations *)

\* the call of thread t is over and its request had a reply
Replied(t) == pc[t] = "done" /\ HasSent(t) /\ fr[t].status # 0

IsDelete(t) == fr[t].op = "delete_container" /\ Replied(t)

\* C12, as stated: delete_container returns true if and only if the status
\* of the b2_delete_bucket reply is 200, returns false for every other
\* status, and never raises, whatever the status (401 included).
C12_DeleteNeverRaises ==
    \A t \in threads : IsDelete(t) =>
        /\ fr[t].result = "return"
        /\ fr[t].value = Bool(fr[t].status = 200)

\* C12, amended: delete_container returns true if and only if the status of
\* the b2_delete_bucket reply is 200 and false for every other status the
\* transport hands back; a 401 raises InvalidCredsError and returns nothing.
C12_DeleteResult ==
    \A t \in threads : IsDelete(t) =>
        IF fr[t].status = 401
        THEN fr[t].result = "InvalidCredsError" /\ fr[t].value = NoObject
        ELSE fr[t].result = "return" /\ fr[t].value = Bool(fr[t].status = 200)

\* delete_container has returned false for a 201 reply
C12_Witness ==
    \E t \in threads :
        /\ IsDelete(t)
        /\ fr[t].status = 201
        /\ fr[t].sent.path = "/b2api/v1/b2_delete_bucket"
        /\ fr[t].value = Bool(FALSE)

\* C13: a 401 reply to the request of any driver operation makes the
\* operation raise InvalidCredsError with the 'message' field of the reply
\* body, and the operation returns no Container, Object, list or boolean.
C13_Unauthorized ==
    \A t \in threads :
        (fr[t].op \in DriverOps \cup {"upload_object"} /\ Replied(t)
         /\ fr[t].status = 401) =>
            /\ fr[t].result = "InvalidCredsError"
            /\ fr[t].error = [message |-> fr[t].object.message]
            /\ fr[t].error.message = "server message"
            /\ fr[t].value = NoObject

\* iterate_containers has raised on a 401 from the API host
C13_Witness ==
    \E t \in threads :
        /\ fr[t].op = "iterate_containers"
        /\ Replied(t)
        /\ fr[t].status = 401
        /\ fr[t].sent.host = "api001.backblazeb2.com"
        /\ fr[t].result = "InvalidCredsError"

\* C14: when a call has failed with an authentication error, the session is
\* unauthenticated (its token is unset), so that the next request() makes a
\* new handshake.
C14_UnauthenticatedAfterFailure ==
    \A t \in threads :
        (pc[t] = "done" /\ fr[t].result = "InvalidCredsError")
            => ~Truthy(session.auth_token)

\* C15: a handshake reply with a non-success status makes authenticate()
\* raise the authentication error (InvalidCredsError) carrying the server's
\* message, and the step changes no field of the session, whether it was
\* empty or set by an earlier handshake.
C15_FailedHandshakeStep(t) ==
    (pc[t] = "auth_send" /\ pc'[t] # "auth_send"
     /\ ~(fr'[t].hstatus \in {200, 201, 202})) =>
        /\ pc'[t] = "done"
        /\ fr'[t].result = "InvalidCredsError"
        /\ FindFrom(fr'[t].error.message, ErrorObject.message, 1) # 0
        /\ session' = session

C15_FailedHandshake == [][\A t \in Threads : C15_FailedHandshakeStep(t)]_vars

IsUploadDone(t) == IsUploadPost(t) /\ Replied(t)

\* C16, as stated: a reply to the upload POST with any status other than 200
\* makes upload_object raise the upload error with that status and the reply
\* body and return no Object; a 200 returns the Object mapped from the reply
\* and bound to the given container.
C16_UploadAnyNon200 ==
    \A t \in threads : IsUploadDone(t) =>
        IF fr[t].status = 200
        THEN /\ fr[t].result = "Object"
             /\ fr[t].value = ToObject(fr[t].object, ContainerArg("b1"))
        ELSE /\ fr[t].result = "LibcloudError"
             /\ fr[t].error.status_code = fr[t].status
             /\ fr[t].error.body = fr[t].object
             /\ fr[t].value = NoObject

\* C16, amended: a 401 reply to the upload POST raises InvalidCredsError;
\* any other status than 200 raises the upload error with that status and
\* the reply body; a 200 returns the Object mapped from the reply and bound
\* to the given container.
C16_UploadResult ==
    \A t \in threads : IsUploadDone(t) =>
        CASE fr[t].status = 200 ->
                /\ fr[t].result = "Object"
                /\ fr[t].value = ToObject(fr[t].object, ContainerArg("b1"))
                /\ fr[t].value.container.extra.id = "b1"
                /\ fr[t].value.name = fr[t].object.fileName
          [] fr[t].status = 401 ->
                /\ fr[t].result = "InvalidCredsError"
                /\ fr[t].value = NoObject
          [] OTHER ->
                /\ fr[t].result = "LibcloudError"
                /\ fr[t].error.status_code = fr[t].status
                /\ fr[t].error.body = fr[t].object
                /\ fr[t].value = NoObject

\* the upload POST was answered 201 and upload_object raised the upload error
C16_Witness ==
    \E t \in threads :
        /\ IsUploadDone(t)
        /\ fr[t].status = 201
        /\ fr[t].result = "LibcloudError"
        /\ fr[t].error.status_code = 201

-----------------------------------------------------------------------------
(* Concurrent callers *)

\* the lines of request() that read the session after authenticate()
RequestReadPcs == {"req_host", "req_token", "req_account"}

\* C17: with two callers in request() on a connection that started
\* unauthenticated, at every line where a request reads the session its
\* account id, token and hosts all come from one handshake reply.
C17_RaceDoesNotCorrupt ==
    \A t \in threads : pc[t] \in RequestReadPcs =>
        /\ \E o \in AuthObjects : session = SessionOf(o)
        /\ (Truthy(session.auth_token) => Truthy(session.api_host))

\* C18: request() writes no state shared between calls: each call handed to
\* the transport goes to the host that the same call resolved.
C18_OwnResolvedHost ==
    \A t \in threads : HasSent(t) => fr[t].sent.host = fr[t].resolved

-----------------------------------------------------------------------------
(* ex_list_object_versions *)

\* the optional argument is in the query exactly when it was given, with
\* the value given
SentIffGiven(params, key, arg) ==
    /\ (key \in DOMAIN params) <=> arg.given
    /\ arg.given => params[key] = arg.value

\* C19: the query of ex_list_object_versions always has bucketId, and has
\* startFileName, startFileId and maxFileCount if and only if the caller
\* gave the argument, with the value given.
C19_ListVersionsParams ==
    \A t \in threads :
        (fr[t].op = "ex_list_object_versions" /\ HasSent(t)) =>
            LET params == fr[t].sent.params
                c == fr[t].drv
            IN  /\ params["bucketId"] = c.container_id
                /\ SentIffGiven(params, "startFileName", c.ex_start_file_name)
                /\ SentIffGiven(params, "startFileId", c.ex_start_file_id)
                /\ SentIffGiven(params, "maxFileCount", c.ex_max_file_count)

====
